---- MODULE Spec2Model ----
(***************************************************************************)
(* TutorX: the in-memory store (server/storage.ts, MemStorage), the        *)
(* dashboard route (server routes), and the derived values the client      *)
(* pages compute from what the routes return (progress page, dashboard     *)
(* page, topics page, welcome header).                                     *)
(*                                                                         *)
(* Conventions.                                                            *)
(*  - A JavaScript Map is a sequence of entries [k, v] in insertion order; *)
(*    set() on an existing key replaces the value in place.                *)
(*  - An optional number (number | null | undefined) is a set: {} when     *)
(*    absent, {n} when present.  An optional id is the string NULL when    *)
(*    absent.                                                              *)
(*  - A Date is its time in clock ticks (a natural number); a Date object  *)
(*    and its ISO string are both truthy in JavaScript, whatever the time. *)
(*  - A JavaScript number that results from a division is a record         *)
(*    [k, n, d]: k = "num" is the rational n/d, k = "NaN" and              *)
(*    k = "Infinity" are the two IEEE results of dividing by zero.         *)
(***************************************************************************)
EXTENDS Integers, Sequences, FiniteSets, TLC

VARIABLES
    users,              \* MemStorage.users
    topics,             \* MemStorage.topics
    lessons,            \* MemStorage.lessons
    quizzes,            \* MemStorage.quizzes
    userProgress,       \* MemStorage.userProgress
    achievements,       \* MemStorage.achievements
    userAchievements,   \* MemStorage.userAchievements
    now,                \* the clock read by new Date()
    response,           \* the HTTP response sent by the step that led here, if any
    pageUser,           \* progress page: data of the ["/api/users", userId] query
    quizData,           \* quiz page: data of the ["/api/quizzes", quizId] query
    currentQuestionIndex,   \* quiz page: useState(0)
    selectedAnswers,    \* quiz page: useState({}), question index -> answer index
    isSubmitted,        \* quiz page: useState(false)
    score,              \* quiz page: useState(0)
    renderPending,      \* quiz page: a state setter has scheduled a render that
                        \* is not committed yet
    mutationStatus,     \* quiz page: submitQuizMutation, "idle", "pending" or "settled"
    mutationFnScore,    \* quiz page: the score in the closure of the mutationFn
                        \* the mutation holds
    posts               \* quiz page: the bodies POSTed to /api/progress since the
                        \* page was mounted

quizPage == <<quizData, currentQuestionIndex, selectedAnswers, isSubmitted, score,
              renderPending, mutationStatus, mutationFnScore, posts>>

vars == <<users, topics, lessons, quizzes, userProgress, achievements,
          userAchievements, now, response, pageUser, quizPage>>

store == <<users, topics, lessons, quizzes, userProgress, achievements,
           userAchievements>>

-----------------------------------------------------------------------------
(* Bounds of the model *)

MaxTime == 1
MaxUsers == 2
MaxTopics == 5
MaxProgress == 4
MaxUserAchievements == 4
MaxActivityProgress == 7

-----------------------------------------------------------------------------
(* JavaScript values *)

NULL == "null"
UNDEFINED == "undefined"

None == {}
Some(n) == {n}
The(o) == CHOOSE n \in o : TRUE

\* if (x) on number | null | undefined: null, undefined and 0 are falsy
TruthyNum(o) == o # None /\ o # Some(0)
\* if (s) on string | null | undefined: null, undefined and "" are falsy
TruthyStr(s) == s # NULL /\ s # UNDEFINED /\ s # ""
\* if (d) on Date | string | null: every Date and every ISO string is truthy
TruthyDate(o) == o # None

NaN == [k |-> "NaN", n |-> 0, d |-> 1]
Infinity == [k |-> "Infinity", n |-> 0, d |-> 1]
Num(n) == [k |-> "num", n |-> n, d |-> 1]

\* a / b for integers a and b >= 0; where b can be 0 the callers have a >= 0
\* (IEEE 754: 0/0 is NaN, a/0 is Infinity for a > 0)
Div(a, b) ==
    IF b = 0 THEN (IF a = 0 THEN NaN ELSE Infinity)
    ELSE [k |-> "num", n |-> a, d |-> b]

\* x * c for an integer c > 0
Times(x, c) == IF x.k = "num" THEN [x EXCEPT !.n = x.n * c] ELSE x

\* Math.round: the nearest integer, halves towards +Infinity; NaN and
\* Infinity are returned unchanged
MathRound(x) ==
    IF x.k = "num" THEN Num((2 * x.n + x.d) \div (2 * x.d)) ELSE x

\* Math.max(0, x) and Math.min(x, 100): NaN propagates
MathMax0(x) ==
    IF x.k = "NaN" THEN x
    ELSE IF x.k = "Infinity" THEN x
    ELSE IF x.n < 0 THEN Num(0) ELSE x
MathMin100(x) ==
    IF x.k = "NaN" THEN x
    ELSE IF x.k = "Infinity" THEN Num(100)
    ELSE IF x.n > 100 * x.d THEN Num(100) ELSE x

\* `${x}` of a number that is an integer, NaN or Infinity
Str(x) == IF x.k = "num" THEN ToString(x.n) ELSE x.k

\* { ...a, ...b }
Spread(a, b) ==
    [f \in DOMAIN a \cup DOMAIN b |-> IF f \in DOMAIN b THEN b[f] ELSE a[f]]

\* r.f of a property typed number | null (its value is {} or {n}): absent
\* also when r has no property f
Opt(r, f) == IF f \in DOMAIN r THEN r[f] ELSE None

\* r.f of a property typed number: absent when r has no property f
Prop(r, f) == IF f \in DOMAIN r THEN Some(r[f]) ELSE None

-----------------------------------------------------------------------------
(* Sequences: Array.prototype.filter / slice / sort *)

RECURSIVE SelectIdx(_, _, _)
\* the indices i >= from of s with s[i] in the set keep, ascending
SelectIdx(s, keep, from) ==
    IF from > Len(s) THEN <<>>
    ELSE IF from \in keep THEN <<from>> \o SelectIdx(s, keep, from + 1)
    ELSE SelectIdx(s, keep, from + 1)

\* s.filter(Test), Test given as the set of indices it accepts
FilterIdx(s, keep) ==
    LET idx == SelectIdx(s, keep, 1) IN [i \in 1..Len(idx) |-> s[idx[i]]]

\* s.slice(0, n)
Slice0(s, n) == IF Len(s) <= n THEN s ELSE SubSeq(s, 1, n)

-----------------------------------------------------------------------------
(* Map *)

MapHas(m, key) == \E i \in 1..Len(m) : m[i].k = key
MapGet(m, key) == m[CHOOSE i \in 1..Len(m) : m[i].k = key].v
MapSet(m, key, val) ==
    IF MapHas(m, key)
    THEN [i \in 1..Len(m) |-> IF m[i].k = key THEN [k |-> key, v |-> val] ELSE m[i]]
    ELSE Append(m, [k |-> key, v |-> val])
MapValues(m) == [i \in 1..Len(m) |-> m[i].v]

\* a generator that repeats itself
randomUUIDAgain(m, prefix) == prefix \o "0"

\* randomUUID(): an identifier no entry of the map is stored under
randomUUID(m, prefix) == prefix \o ToString(Len(m) + 1)

-----------------------------------------------------------------------------
(* MemStorage: the state after construction (initializeData) *)

Entry(rec) == [k |-> rec.id, v |-> rec]

sampleUser ==
    [id |-> "user-1", name |-> "Ahmad", level |-> 12, points |-> 1250,
     streak |-> 7, studyTimeMinutes |-> 165]

sampleTopics == <<
    [id |-> "functions", title |-> "Functions and Graphs", lessonsCount |-> 8,
     rating |-> 48, colorClass |-> "blue", order |-> 1, isLocked |-> FALSE],
    [id |-> "quadratic", title |-> "Quadratic Functions", lessonsCount |-> 6,
     rating |-> 49, colorClass |-> "primary", order |-> 2, isLocked |-> FALSE],
    [id |-> "logarithmic", title |-> "Logarithmic Functions", lessonsCount |-> 5,
     rating |-> 47, colorClass |-> "purple", order |-> 3, isLocked |-> TRUE],
    [id |-> "coordinate", title |-> "Coordinate Geometry", lessonsCount |-> 7,
     rating |-> 46, colorClass |-> "green", order |-> 4, isLocked |-> TRUE] >>

sampleAchievements == <<
    [id |-> "week-warrior", requirement |-> "streak_7_days", pointsReward |-> 100],
    [id |-> "quiz-master", requirement |-> "quiz_90_percent_5_times", pointsReward |-> 150],
    [id |-> "speed-learner", requirement |-> "lessons_3_in_1_hour", pointsReward |-> 75] >>

\* the three seeded unlocks, stamped new Date() at construction time t
sampleUserAchievements(t) == <<
    [id |-> "ua-1", userId |-> "user-1", achievementId |-> "week-warrior", unlockedAt |-> Some(t)],
    [id |-> "ua-2", userId |-> "user-1", achievementId |-> "quiz-master", unlockedAt |-> Some(t)],
    [id |-> "ua-3", userId |-> "user-1", achievementId |-> "speed-learner", unlockedAt |-> Some(t)] >>

progressEntries(t) == <<
    [id |-> "progress-1", userId |-> "user-1", topicId |-> "functions", lessonId |-> NULL,
     isCompleted |-> TRUE, score |-> Some(95), timeSpent |-> Some(5400), completedAt |-> Some(t)],
    [id |-> "progress-2", userId |-> "user-1", topicId |-> "quadratic", lessonId |-> "quadratic-1",
     isCompleted |-> TRUE, score |-> Some(88), timeSpent |-> Some(2700), completedAt |-> Some(t)],
    [id |-> "progress-3", userId |-> "user-1", topicId |-> "quadratic", lessonId |-> "quadratic-2",
     isCompleted |-> TRUE, score |-> Some(92), timeSpent |-> Some(3100), completedAt |-> Some(t)] >>

\* sampleLessons followed by functionsLessons, in the order they are set
sampleLessons == <<
    [id |-> "quadratic-1", topicId |-> "quadratic", title |-> "Introduction to Quadratic Functions",
     videoDuration |-> Some(612), order |-> 1],
    [id |-> "quadratic-2", topicId |-> "quadratic", title |-> "Graphing Parabolas and Finding Vertex",
     videoDuration |-> Some(738), order |-> 2],
    [id |-> "quadratic-3", topicId |-> "quadratic", title |-> "Vertex Form and Transformations",
     videoDuration |-> Some(564), order |-> 3],
    [id |-> "quadratic-4", topicId |-> "quadratic", title |-> "Solving Quadratic Equations",
     videoDuration |-> Some(678), order |-> 4],
    [id |-> "quadratic-5", topicId |-> "quadratic", title |-> "Applications and Word Problems",
     videoDuration |-> Some(542), order |-> 5],
    [id |-> "quadratic-6", topicId |-> "quadratic", title |-> "Sum and Product of Roots",
     videoDuration |-> Some(467), order |-> 6],
    [id |-> "functions-1", topicId |-> "functions", title |-> "Introduction to Functions",
     videoDuration |-> Some(534), order |-> 1],
    [id |-> "functions-2", topicId |-> "functions", title |-> "Function Operations",
     videoDuration |-> Some(612), order |-> 2],
    [id |-> "functions-3", topicId |-> "functions", title |-> "Composite Functions",
     videoDuration |-> Some(445), order |-> 3] >>

sampleQuizzes == <<
    [id |-> "quadratic-quiz-1", lessonId |-> "quadratic-3", topicId |-> "quadratic",
     title |-> "Vertex Form and Transformations Quiz", pointsReward |-> 75,
     timeLimit |-> Some(450),
     questions |-> <<[correctAnswer |-> 0], [correctAnswer |-> 1], [correctAnswer |-> 0],
                     [correctAnswer |-> 1], [correctAnswer |-> 1]>>],
    [id |-> "functions-quiz-1", lessonId |-> "functions-1", topicId |-> "functions",
     title |-> "Functions Basics Quiz", pointsReward |-> 60, timeLimit |-> Some(360),
     questions |-> <<[correctAnswer |-> 0], [correctAnswer |-> 0], [correctAnswer |-> 0],
                     [correctAnswer |-> 1]>>],
    [id |-> "quadratic-solving-quiz", lessonId |-> "quadratic-4", topicId |-> "quadratic",
     title |-> "Solving Quadratic Equations Quiz", pointsReward |-> 80,
     timeLimit |-> Some(480),
     questions |-> <<[correctAnswer |-> 0], [correctAnswer |-> 0], [correctAnswer |-> 1],
                     [correctAnswer |-> 0]>>] >>

Seeded(recs) == [i \in 1..Len(recs) |-> Entry(recs[i])]

NoResponse == [status |-> 0, body |-> [message |-> ""]]

initializeData ==
    /\ now = 0
    /\ users = <<Entry(sampleUser)>>
    /\ topics = Seeded(sampleTopics)
    /\ lessons = Seeded(sampleLessons)
    /\ quizzes = Seeded(sampleQuizzes)
    /\ achievements = Seeded(sampleAchievements)
    /\ userAchievements = Seeded(sampleUserAchievements(now))
    /\ userProgress = Seeded(progressEntries(now))

Init ==
    /\ initializeData
    /\ response = NoResponse
    /\ pageUser = None
    /\ quizData = None
    /\ currentQuestionIndex = 0
    /\ selectedAnswers = <<>>
    /\ isSubmitted = FALSE
    /\ score = 0
    /\ renderPending = FALSE
    /\ mutationStatus = "idle"
    /\ mutationFnScore = 0
    /\ posts = <<>>

-----------------------------------------------------------------------------
(* MemStorage: the data-access operations *)

getUser(id) == IF MapHas(users, id) THEN {MapGet(users, id)} ELSE {}

\* createUser: insertUser has name and, optionally, level, points, streak,
\* studyTimeMinutes
createUser(insertUser) ==
    LET id == randomUUID(users, "user-uuid-")
        level == IF TruthyNum(Prop(insertUser, "level")) THEN insertUser.level ELSE 1
        points == IF TruthyNum(Prop(insertUser, "points")) THEN insertUser.points ELSE 0
        streak == IF TruthyNum(Prop(insertUser, "streak")) THEN insertUser.streak ELSE 0
        minutes == IF TruthyNum(Prop(insertUser, "studyTimeMinutes"))
                   THEN insertUser.studyTimeMinutes ELSE 0
        user == [id |-> id, name |-> insertUser.name, level |-> level, points |-> points,
                 streak |-> streak, studyTimeMinutes |-> minutes]
    IN  MapSet(users, id, user)

\* an update that stores the updates in place of the record
updateUserReplacing(id, updates) ==
    IF ~MapHas(users, id) THEN users
    ELSE MapSet(users, id, updates)

\* updateUser: the store after the call (unchanged when the id is unknown)
updateUser(id, updates) ==
    IF ~MapHas(users, id) THEN users
    ELSE MapSet(users, id, Spread(MapGet(users, id), updates))

RECURSIVE InsertByOrderBeforeTies(_, _)
\* a sort that is not stable: a record goes before the records of equal order
InsertByOrderBeforeTies(sorted, t) ==
    IF sorted = <<>> THEN <<t>>
    ELSE IF Head(sorted).order < t.order
         THEN <<Head(sorted)>> \o InsertByOrderBeforeTies(Tail(sorted), t)
         ELSE <<t>> \o sorted

\* Array.prototype.sort((a, b) => a.order - b.order): stable, ascending
RECURSIVE InsertByOrder(_, _)
InsertByOrder(sorted, t) ==
    IF sorted = <<>> THEN <<t>>
    ELSE IF Head(sorted).order <= t.order
         THEN <<Head(sorted)>> \o InsertByOrder(Tail(sorted), t)
         ELSE <<t>> \o sorted

RECURSIVE SortByOrder(_)
SortByOrder(s) ==
    IF s = <<>> THEN <<>>
    ELSE InsertByOrder(SortByOrder(SubSeq(s, 1, Len(s) - 1)), s[Len(s)])

getAllTopics == SortByOrder(MapValues(topics))

createTopic(topic) ==
    LET fullTopic ==
            Spread(topic,
                   [rating |-> IF TruthyNum(Prop(topic, "rating")) THEN topic.rating ELSE 50,
                    isLocked |-> ("isLocked" \in DOMAIN topic) /\ topic.isLocked])
    IN  MapSet(topics, topic.id, fullTopic)

getUserProgress(userId) ==
    LET all == MapValues(userProgress)
    IN  FilterIdx(all, {i \in 1..Len(all) : all[i].userId = userId})

\* createUserProgress: progress has userId, topicId and, optionally, lessonId,
\* isCompleted, score, timeSpent, completedAt
createUserProgress(progress) ==
    LET id == randomUUID(userProgress, "progress-uuid-")
        lessonId == IF "lessonId" \in DOMAIN progress /\ TruthyStr(progress.lessonId)
                    THEN progress.lessonId ELSE NULL
        rec == [id |-> id, userId |-> progress.userId, topicId |-> progress.topicId,
                lessonId |-> lessonId,
                isCompleted |-> ("isCompleted" \in DOMAIN progress) /\ progress.isCompleted,
                score |-> IF TruthyNum(Opt(progress, "score")) THEN progress.score ELSE None,
                timeSpent |-> IF TruthyNum(Opt(progress, "timeSpent"))
                              THEN progress.timeSpent ELSE None,
                completedAt |-> IF TruthyDate(Opt(progress, "completedAt"))
                                THEN progress.completedAt ELSE None]
    IN  MapSet(userProgress, id, rec)

\* an update that creates the record when the id is unknown
updateUserProgressOrCreate(id, updates) ==
    MapSet(userProgress, id,
           IF MapHas(userProgress, id) THEN Spread(MapGet(userProgress, id), updates)
           ELSE updates)

updateUserProgress(id, updates) ==
    IF ~MapHas(userProgress, id) THEN userProgress
    ELSE MapSet(userProgress, id, Spread(MapGet(userProgress, id), updates))

\* getUserAchievements: the user's unlocks in map order, each joined with
\* this.achievements.get(ua.achievementId) (absent when the id is unknown)
getUserAchievements(userId) ==
    LET all == MapValues(userAchievements)
        mine == FilterIdx(all, {i \in 1..Len(all) : all[i].userId = userId})
    IN  [i \in 1..Len(mine) |->
            Spread(mine[i],
                   [achievement |->
                        IF MapHas(achievements, mine[i].achievementId)
                        THEN {MapGet(achievements, mine[i].achievementId)} ELSE {}])]

\* a store that keeps (user, achievement) unique: a second unlock is dropped
createUserAchievementOnce(userAchievement) ==
    IF \E i \in 1..Len(userAchievements) :
           /\ userAchievements[i].v.userId = userAchievement.userId
           /\ userAchievements[i].v.achievementId = userAchievement.achievementId
    THEN userAchievements
    ELSE LET id == randomUUID(userAchievements, "ua-uuid-")
         IN  MapSet(userAchievements, id,
                    [id |-> id, userId |-> userAchievement.userId,
                     achievementId |-> userAchievement.achievementId,
                     unlockedAt |-> Some(now)])

createUserAchievement(userAchievement) ==
    LET id == randomUUID(userAchievements, "ua-uuid-")
    IN  MapSet(userAchievements, id,
               [id |-> id, userId |-> userAchievement.userId,
                achievementId |-> userAchievement.achievementId,
                unlockedAt |-> Some(now)])

\* updateUser / updateUserProgress: the value the call returns, {} for
\* undefined
updateUserReturn(id, updates) ==
    IF ~MapHas(users, id) THEN {} ELSE {Spread(MapGet(users, id), updates)}

updateUserProgressReturn(id, updates) ==
    IF ~MapHas(userProgress, id) THEN {}
    ELSE {Spread(MapGet(userProgress, id), updates)}

\* createUserProgress: the record the call returns
createUserProgressReturn(progress) ==
    MapGet(createUserProgress(progress), randomUUID(userProgress, "progress-uuid-"))

getTopic(id) == IF MapHas(topics, id) THEN {MapGet(topics, id)} ELSE {}

getLessonsByTopic(topicId) ==
    LET all == MapValues(lessons)
    IN  SortByOrder(FilterIdx(all, {i \in 1..Len(all) : all[i].topicId = topicId}))

getLesson(id) == IF MapHas(lessons, id) THEN {MapGet(lessons, id)} ELSE {}

\* createLesson: lesson has id, topicId, title, order and, optionally,
\* videoDuration
createLesson(lesson) ==
    LET fullLesson ==
            Spread(lesson,
                   [videoDuration |-> IF TruthyNum(Opt(lesson, "videoDuration"))
                                      THEN lesson.videoDuration ELSE None])
    IN  MapSet(lessons, lesson.id, fullLesson)

getQuiz(id) == IF MapHas(quizzes, id) THEN {MapGet(quizzes, id)} ELSE {}

\* createQuiz: quiz has id, title and, optionally, topicId, lessonId,
\* pointsReward, timeLimit
createQuiz(quiz) ==
    LET fullQuiz ==
            Spread(quiz,
                   [topicId |-> IF "topicId" \in DOMAIN quiz /\ TruthyStr(quiz.topicId)
                                THEN quiz.topicId ELSE NULL,
                    lessonId |-> IF "lessonId" \in DOMAIN quiz /\ TruthyStr(quiz.lessonId)
                                 THEN quiz.lessonId ELSE NULL,
                    pointsReward |-> IF TruthyNum(Prop(quiz, "pointsReward"))
                                     THEN quiz.pointsReward ELSE 50,
                    timeLimit |-> IF TruthyNum(Opt(quiz, "timeLimit"))
                                  THEN quiz.timeLimit ELSE None])
    IN  MapSet(quizzes, quiz.id, fullQuiz)

-----------------------------------------------------------------------------
(* The average-score expression shared by the dashboard route and the       *)
(* progress page:                                                          *)
(*   recs.length > 0                                                       *)
(*     ? Math.round(recs.filter(p => p.score)                              *)
(*                      .reduce((sum, p) => sum + (p.score || 0), 0)       *)
(*                  / recs.filter(p => p.score).length)                    *)
(*     : 0                                                                 *)

\* recs.filter(p => p.score)
FilterScore(recs) == FilterIdx(recs, {i \in 1..Len(recs) : TruthyNum(recs[i].score)})

RECURSIVE ReduceScore(_)
\* recs.reduce((sum, p) => sum + (p.score || 0), 0)
ReduceScore(recs) ==
    IF recs = <<>> THEN 0
    ELSE ReduceScore(SubSeq(recs, 1, Len(recs) - 1))
         + (IF TruthyNum(recs[Len(recs)].score) THEN The(recs[Len(recs)].score) ELSE 0)

averageScoreOf(recs) ==
    IF Len(recs) > 0
    THEN MathRound(Div(ReduceScore(FilterScore(recs)), Len(FilterScore(recs))))
    ELSE Num(0)

\* recs.filter(p => p.isCompleted)
FilterCompleted(recs) == FilterIdx(recs, {i \in 1..Len(recs) : recs[i].isCompleted})

\* recs.filter(p => p.topicId === topicId)
FilterTopic(recs, topicId) == FilterIdx(recs, {i \in 1..Len(recs) : recs[i].topicId = topicId})

-----------------------------------------------------------------------------
(* GET /api/users/:userId/dashboard *)

NotFound(message) == [status |-> 404, body |-> [message |-> message]]

dashboardRoute(userId) ==
    LET user == getUser(userId)
        allTopics == getAllTopics
        progress == getUserProgress(userId)
        unlocked == getUserAchievements(userId)
        completedTopics ==
            Len(FilterIdx(progress,
                          {i \in 1..Len(progress) :
                              progress[i].isCompleted /\ ~TruthyStr(progress[i].lessonId)}))
        totalTopics == Len(allTopics)
        averageScore == averageScoreOf(progress)
    IN  IF user = {} THEN NotFound("User not found")
        ELSE [status |-> 200,
              body |->
                [user |-> The(user),
                 stats |->
                    [completedTopics |-> ToString(completedTopics) \o "/" \o ToString(totalTopics),
                     quizAverage |-> Str(averageScore) \o "%",
                     studyTime |-> ToString(The(user).studyTimeMinutes \div 60) \o "h "
                                   \o ToString(The(user).studyTimeMinutes % 60) \o "m",
                     achievements |-> Len(unlocked)],
                 recentAchievements |-> Slice0(unlocked, 3),
                 topics |-> allTopics,
                 currentProgress |-> progress]]

-----------------------------------------------------------------------------
(* Client: dashboard page, topic grid, topics page *)

\* dashboard.tsx topicsWithProgress, for one topic of dashboardData
topicWithProgress(dashboardData, topic) ==
    LET topicProgress == FilterTopic(dashboardData.currentProgress, topic.id)
        completedLessons == Len(FilterCompleted(topicProgress))
        isCompleted == \E i \in 1..Len(topicProgress) : topicProgress[i].isCompleted
        isInProgress == Len(topicProgress) > 0 /\ ~isCompleted
    IN  Spread(topic, [isCompleted |-> isCompleted, isInProgress |-> isInProgress,
                       completedLessons |-> completedLessons])

topicsWithProgress(dashboardData) ==
    [i \in 1..Len(dashboardData.topics) |->
        topicWithProgress(dashboardData, dashboardData.topics[i])]

\* topics.tsx getProgressData over the data of the user's progress query
getProgressData(progress, topicId) ==
    LET topicProgress == FilterTopic(progress, topicId)
        completed == Len(FilterCompleted(topicProgress))
        isCompleted == completed > 0
        isInProgress == Len(topicProgress) > 0 /\ ~isCompleted
    IN  [completed |-> completed, isCompleted |-> isCompleted, isInProgress |-> isInProgress]

-----------------------------------------------------------------------------
(* Client: progress page, over the data of its three queries               *)
(* (user: {} while the query has no data; topicList; progress)             *)

RECURSIVE ReduceLessonsCount(_)
\* topics.reduce((sum, topic) => sum + topic.lessonsCount, 0)
ReduceLessonsCount(topicList) ==
    IF topicList = <<>> THEN 0
    ELSE ReduceLessonsCount(SubSeq(topicList, 1, Len(topicList) - 1))
         + topicList[Len(topicList)].lessonsCount

calculateOverallStats(user, topicList, progress) ==
    LET totalTopics == Len(topicList)
        completedTopics ==
            Len(FilterIdx(topicList,
                          {t \in 1..Len(topicList) :
                              \E i \in 1..Len(progress) :
                                  progress[i].topicId = topicList[t].id /\ progress[i].isCompleted}))
        totalLessons == ReduceLessonsCount(topicList)
        completedLessons == Len(FilterCompleted(progress))
        averageScore == averageScoreOf(progress)
        totalStudyTime ==
            IF user # {} /\ TruthyNum(Some(The(user).studyTimeMinutes))
            THEN The(user).studyTimeMinutes ELSE 0
    IN  [topicsProgress |-> Times(Div(completedTopics, totalTopics), 100),
         lessonsProgress |-> Times(Div(completedLessons, totalLessons), 100),
         completedTopics |-> completedTopics,
         totalTopics |-> totalTopics,
         completedLessons |-> completedLessons,
         totalLessons |-> totalLessons,
         averageScore |-> averageScore,
         totalStudyTime |-> totalStudyTime]

\* a topic progress whose percentage is clamped to 100
getTopicProgressClamped(progress, topic) ==
    LET topicProgressEntries == FilterTopic(progress, topic.id)
        completed == Len(FilterCompleted(topicProgressEntries))
        isCompleted == completed > 0
        averageScore == averageScoreOf(topicProgressEntries)
    IN  [completed |-> completed,
         total |-> topic.lessonsCount,
         percentage |-> MathMin100(Times(Div(completed, topic.lessonsCount), 100)),
         isCompleted |-> isCompleted,
         averageScore |-> IF Len(FilterScore(topicProgressEntries)) > 0
                          THEN {averageScore} ELSE {}]

\* averageScore is a number or null: {} is null
getTopicProgress(progress, topic) ==
    LET topicProgressEntries == FilterTopic(progress, topic.id)
        completed == Len(FilterCompleted(topicProgressEntries))
        isCompleted == completed > 0
        averageScore == averageScoreOf(topicProgressEntries)
    IN  [completed |-> completed,
         total |-> topic.lessonsCount,
         percentage |-> Times(Div(completed, topic.lessonsCount), 100),
         isCompleted |-> isCompleted,
         averageScore |-> IF Len(FilterScore(topicProgressEntries)) > 0
                          THEN {averageScore} ELSE {}]

baseXP == 1000

\* progress.tsx getLevelProgress
getLevelProgress(user) ==
    IF user = {} THEN [current |-> 0, total |-> 1000, percentage |-> Num(0), nextLevel |-> 2]
    ELSE LET currentLevelXP == (The(user).level - 1) * baseXP
             currentProgress == The(user).points - currentLevelXP
             progressPercentage == Times(Div(currentProgress, baseXP), 100)
         IN  [current |-> IF currentProgress < 0 THEN 0 ELSE currentProgress,
              total |-> baseXP,
              percentage |-> MathMin100(MathMax0(progressPercentage)),
              nextLevel |-> The(user).level + 1]

\* progress.tsx: <Navigation user={user || { name: "Ahmad", points: 1250 }} />
navigationUser(user) ==
    IF user # {} THEN The(user) ELSE [name |-> "Ahmad", points |-> 1250]

\* welcome-header.tsx getLevelProgress, for the user prop
headerLevelProgress(user) ==
    LET currentLevelXP == (user.level - 1) * baseXP
        currentProgress == user.points - currentLevelXP
        progressPercentage == Times(Div(currentProgress, baseXP), 100)
    IN  [current |-> currentProgress,
         total |-> baseXP,
         percentage |-> MathMin100(progressPercentage)]

RECURSIVE InsertByCompletedAtAscending(_, _)
\* the comparator with a and b exchanged: oldest first
InsertByCompletedAtAscending(sorted, p) ==
    IF sorted = <<>> THEN <<p>>
    ELSE IF The(Head(sorted).completedAt) <= The(p.completedAt)
         THEN <<Head(sorted)>> \o InsertByCompletedAtAscending(Tail(sorted), p)
         ELSE <<p>> \o sorted

RECURSIVE InsertByCompletedAt(_, _)
InsertByCompletedAt(sorted, p) ==
    IF sorted = <<>> THEN <<p>>
    ELSE IF The(Head(sorted).completedAt) >= The(p.completedAt)
         THEN <<Head(sorted)>> \o InsertByCompletedAt(Tail(sorted), p)
         ELSE <<p>> \o sorted

RECURSIVE SortByCompletedAtDesc(_)
\* Array.prototype.sort((a, b) => time(b.completedAt) - time(a.completedAt)):
\* stable, most recent first
SortByCompletedAtDesc(s) ==
    IF s = <<>> THEN <<>>
    ELSE InsertByCompletedAt(SortByCompletedAtDesc(SubSeq(s, 1, Len(s) - 1)), s[Len(s)])

\* recs.filter(p => p.completedAt)
FilterCompletedAt(recs) ==
    FilterIdx(recs, {i \in 1..Len(recs) : TruthyDate(recs[i].completedAt)})

RecentActivityLimit == 5

\* topics.find(t => t.id === topicId): {} when no topic has the id
findTopic(topicList, topicId) ==
    LET hits == {i \in 1..Len(topicList) : topicList[i].id = topicId}
    IN  IF hits = {} THEN {}
        ELSE {topicList[CHOOSE i \in hits : \A j \in hits : i <= j]}

getRecentActivity(topicList, progress) ==
    LET recent == Slice0(SortByCompletedAtDesc(FilterCompletedAt(progress)),
                         RecentActivityLimit)
    IN  [i \in 1..Len(recent) |->
            LET topic == findTopic(topicList, recent[i].topicId)
            IN  Spread(recent[i],
                       [topicTitle |-> IF topic # {} /\ TruthyStr(The(topic).title)
                                       THEN The(topic).title ELSE "Unknown Topic",
                        topicColor |-> IF topic # {} /\ TruthyStr(The(topic).colorClass)
                                       THEN The(topic).colorClass ELSE "gray"])]

-----------------------------------------------------------------------------
(* What the pages hold: the progress page and the topics page query the    *)
(* fixed user "user-1"                                                     *)

pageUserId == "user-1"

\* GET /api/topics and GET /api/users/user-1/progress as the pages read them
pageTopics == getAllTopics
pageProgress == getUserProgress(pageUserId)

\* GET /api/users/:id
userRoute(id) ==
    IF getUser(id) = {} THEN NotFound("User not found")
    ELSE [status |-> 200, body |-> The(getUser(id))]

\* PUT /api/users/:id, the body passed to updateUser as it is
putUserRoute(id, body) ==
    IF updateUserReturn(id, body) = {} THEN NotFound("User not found")
    ELSE [status |-> 200, body |-> The(updateUserReturn(id, body))]

\* GET /api/topics/:id, GET /api/lessons/:id, GET /api/quizzes/:id
topicRoute(id) ==
    IF getTopic(id) = {} THEN NotFound("Topic not found")
    ELSE [status |-> 200, body |-> The(getTopic(id))]

lessonRoute(id) ==
    IF getLesson(id) = {} THEN NotFound("Lesson not found")
    ELSE [status |-> 200, body |-> The(getLesson(id))]

quizRoute(id) ==
    IF getQuiz(id) = {} THEN NotFound("Quiz not found")
    ELSE [status |-> 200, body |-> The(getQuiz(id))]

\* the columns of userProgress that insertUserProgressSchema keeps
insertUserProgressKeys ==
    {"userId", "topicId", "lessonId", "isCompleted", "score", "timeSpent", "completedAt"}

\* a schema whose isCompleted column has no default: the flag is required too
insertUserProgressSchemaWithoutDefault(body) ==
    /\ "userId" \in DOMAIN body /\ body.userId # NULL
    /\ "topicId" \in DOMAIN body /\ body.topicId # NULL
    /\ "isCompleted" \in DOMAIN body
    /\ "completedAt" \in DOMAIN body => body.completedAt = None

\* insertUserProgressSchema.parse(body) succeeds.  body is a parsed JSON
\* object.  userId and topicId (notNull, no default) are required strings;
\* isCompleted (notNull with default), lessonId, score, timeSpent and
\* completedAt (nullable) are optional.  completedAt must be null or a Date,
\* and no JSON value is a Date: a timestamp arrives as an ISO string.
insertUserProgressSchema(body) ==
    /\ "userId" \in DOMAIN body /\ body.userId # NULL
    /\ "topicId" \in DOMAIN body /\ body.topicId # NULL
    /\ "completedAt" \in DOMAIN body => body.completedAt = None

\* the value parse returns: the body without the keys the schema does not know
progressData(body) == [f \in DOMAIN body \cap insertUserProgressKeys |-> body[f]]

\* POST /api/progress
postProgressRoute(body) ==
    IF ~insertUserProgressSchema(body)
    THEN [status |-> 400, body |-> [message |-> "Invalid progress data"]]
    ELSE [status |-> 201, body |-> createUserProgressReturn(progressData(body))]

\* PUT /api/progress/:id, the body passed to updateUserProgress as it is
putProgressRoute(id, body) ==
    IF updateUserProgressReturn(id, body) = {} THEN NotFound("Progress not found")
    ELSE [status |-> 200, body |-> The(updateUserProgressReturn(id, body))]

\* GET /api/users/:userId/achievements
userAchievementsRoute(userId) == [status |-> 200, body |-> getUserAchievements(userId)]

-----------------------------------------------------------------------------
(* Actions: one per data-access operation, route or page query *)

Tick ==
    /\ now < MaxTime
    /\ now' = now + 1
    /\ response' = NoResponse
    /\ UNCHANGED <<store, pageUser>>
    /\ UNCHANGED quizPage

CreateUser(insertUser) ==
    /\ users' = createUser(insertUser)
    /\ response' = NoResponse
    /\ UNCHANGED <<topics, userProgress, achievements, userAchievements, now, pageUser,
                 lessons, quizzes>>
    /\ UNCHANGED quizPage

UpdateUser(id, updates) ==
    /\ users' = updateUser(id, updates)
    /\ response' = NoResponse
    /\ UNCHANGED <<topics, userProgress, achievements, userAchievements, now, pageUser,
                 lessons, quizzes>>
    /\ UNCHANGED quizPage

CreateTopic(topic) ==
    /\ topics' = createTopic(topic)
    /\ response' = NoResponse
    /\ UNCHANGED <<users, userProgress, achievements, userAchievements, now, pageUser,
                 lessons, quizzes>>
    /\ UNCHANGED quizPage

CreateUserProgress(progress) ==
    /\ userProgress' = createUserProgress(progress)
    /\ response' = NoResponse
    /\ UNCHANGED <<users, topics, achievements, userAchievements, now, pageUser,
                 lessons, quizzes>>
    /\ UNCHANGED quizPage

UpdateUserProgress(id, updates) ==
    /\ userProgress' = updateUserProgress(id, updates)
    /\ response' = NoResponse
    /\ UNCHANGED <<users, topics, achievements, userAchievements, now, pageUser,
                 lessons, quizzes>>
    /\ UNCHANGED quizPage

CreateUserAchievement(userAchievement) ==
    /\ userAchievements' = createUserAchievement(userAchievement)
    /\ response' = NoResponse
    /\ UNCHANGED <<users, topics, userProgress, achievements, now, pageUser,
                 lessons, quizzes>>
    /\ UNCHANGED quizPage

\* a dashboard request that levels the user up from the points
GetDashboardLevellingUp(userId) ==
    /\ response' = dashboardRoute(userId)
    /\ users' = IF MapHas(users, userId)
                THEN updateUser(userId,
                                [level |-> MapGet(users, userId).points \div 1000 + 1])
                ELSE users
    /\ UNCHANGED <<topics, lessons, quizzes, userProgress, achievements,
                   userAchievements, now, pageUser>>
    /\ UNCHANGED quizPage

GetDashboard(userId) ==
    /\ response' = dashboardRoute(userId)
    /\ UNCHANGED <<store, now, pageUser>>
    /\ UNCHANGED quizPage

\* the progress page's user query: GET /api/users/user-1; a 404 leaves the
\* query without data
QueryPageUser ==
    /\ response' = userRoute(pageUserId)
    /\ pageUser' = IF response'.status = 200 THEN {response'.body} ELSE pageUser
    /\ UNCHANGED <<store, now>>
    /\ UNCHANGED quizPage

CreateLesson(lesson) ==
    /\ lessons' = createLesson(lesson)
    /\ response' = NoResponse
    /\ UNCHANGED <<users, topics, quizzes, userProgress, achievements, userAchievements,
                   now, pageUser>>
    /\ UNCHANGED quizPage

CreateQuiz(quiz) ==
    /\ quizzes' = createQuiz(quiz)
    /\ response' = NoResponse
    /\ UNCHANGED <<users, topics, lessons, userProgress, achievements, userAchievements,
                   now, pageUser>>
    /\ UNCHANGED quizPage

GetUser(id) ==
    /\ response' = userRoute(id)
    /\ UNCHANGED <<store, now, pageUser>>
    /\ UNCHANGED quizPage

PutUser(id, body) ==
    /\ users' = updateUser(id, body)
    /\ response' = putUserRoute(id, body)
    /\ UNCHANGED <<topics, lessons, quizzes, userProgress, achievements, userAchievements,
                   now, pageUser>>
    /\ UNCHANGED quizPage

GetTopic(id) ==
    /\ response' = topicRoute(id)
    /\ UNCHANGED <<store, now, pageUser>>
    /\ UNCHANGED quizPage

GetLesson(id) ==
    /\ response' = lessonRoute(id)
    /\ UNCHANGED <<store, now, pageUser>>
    /\ UNCHANGED quizPage

GetQuiz(id) ==
    /\ response' = quizRoute(id)
    /\ UNCHANGED <<store, now, pageUser>>
    /\ UNCHANGED quizPage

PostProgress(body) ==
    /\ response' = postProgressRoute(body)
    /\ userProgress' = IF insertUserProgressSchema(body)
                       THEN createUserProgress(progressData(body)) ELSE userProgress
    /\ UNCHANGED <<users, topics, lessons, quizzes, achievements, userAchievements,
                   now, pageUser>>
    /\ UNCHANGED quizPage

PutProgress(id, body) ==
    /\ userProgress' = updateUserProgress(id, body)
    /\ response' = putProgressRoute(id, body)
    /\ UNCHANGED <<users, topics, lessons, quizzes, achievements, userAchievements,
                   now, pageUser>>
    /\ UNCHANGED quizPage

GetUserAchievements(userId) ==
    /\ response' = userAchievementsRoute(userId)
    /\ UNCHANGED <<store, now, pageUser>>
    /\ UNCHANGED quizPage

-----------------------------------------------------------------------------
(* The inputs the operations are called with *)

UserIds == {"user-1", "user-uuid-2", "user-9"}

InsertUsers == {[name |-> "Siti", points |-> 450]}

UserUpdates == {[level |-> 2, points |-> 1450]}

InsertTopics ==
    {[id |-> "indices", title |-> "Indices and Surds", lessonsCount |-> 0,
      colorClass |-> "blue", order |-> 2]}

InsertProgress ==
    {[userId |-> u, topicId |-> "functions", isCompleted |-> TRUE] :
        u \in {"user-1", "user-uuid-2"}}

ProgressIds == {"progress-1", "progress-9"}

ProgressUpdates == {[score |-> Some(0)]}

InsertUserAchievements == {[userId |-> "user-1", achievementId |-> "week-warrior"]}

TopicIds == {"functions", "trigonometry"}

LessonIds == {"quadratic-1", "quadratic-9"}

QuizIds == {"functions-quiz-1", "quiz-9"}

\* bodies of POST /api/progress: a lesson completion, and the same without
\* the user id
ProgressBodies ==
    {[userId |-> "user-1", topicId |-> "functions", lessonId |-> "functions-1",
      isCompleted |-> TRUE],
     [topicId |-> "functions", lessonId |-> "functions-1", isCompleted |-> TRUE]}

Next ==
    \/ Tick
    \/ Len(users) < MaxUsers /\ \E u \in InsertUsers : CreateUser(u)
    \/ \E id \in UserIds, updates \in UserUpdates : UpdateUser(id, updates)
    \/ Len(topics) < MaxTopics /\ \E t \in InsertTopics : CreateTopic(t)
    \/ Len(userProgress) < MaxProgress /\ \E p \in InsertProgress : CreateUserProgress(p)
    \/ \E id \in ProgressIds, updates \in ProgressUpdates : UpdateUserProgress(id, updates)
    \/ Len(userAchievements) < MaxUserAchievements
       /\ \E ua \in InsertUserAchievements : CreateUserAchievement(ua)
    \/ \E id \in UserIds : GetDashboard(id)
    \/ QueryPageUser
    \/ \E id \in UserIds : GetUser(id)
    \/ \E id \in UserIds, body \in UserUpdates : PutUser(id, body)
    \/ \E id \in TopicIds : GetTopic(id)
    \/ \E id \in LessonIds : GetLesson(id)
    \/ \E id \in QuizIds : GetQuiz(id)
    \/ Len(userProgress) < MaxProgress /\ \E body \in ProgressBodies : PostProgress(body)
    \/ \E id \in ProgressIds, body \in ProgressUpdates : PutProgress(id, body)
    \/ \E id \in UserIds : GetUserAchievements(id)

Spec == Init /\ [][Next]_vars

-----------------------------------------------------------------------------
(* Vocabulary of the properties *)

IsZero(x) == x.k = "num" /\ x.n = 0
InPercentRange(x) == x.k = "num" /\ 0 <= x.n /\ x.n <= 100 * x.d
\* x = a / b for b > 0
IsRatio(x, a, b) == x.k = "num" /\ x.n * b = a * x.d

Range(s) == {s[i] : i \in 1..Len(s)}
StoredUsers == Range(MapValues(users))
StoredTopics == Range(MapValues(topics))

\* no record carries a score
NoScore(recs) == \A i \in 1..Len(recs) : recs[i].score = None

\* the record is a topic-level completion record
TopicLevelCompletion(p) == p.isCompleted /\ p.lessonId = NULL

RECURSIVE SumPresentScores(_)
SumPresentScores(recs) ==
    IF recs = <<>> THEN 0
    ELSE SumPresentScores(Tail(recs))
         + (IF Head(recs).score # None THEN The(Head(recs).score) ELSE 0)

CountPresentScores(recs) == Cardinality({i \in 1..Len(recs) : recs[i].score # None})

\* the mean of the present scores, rounded to the nearest integer
RoundedMean(recs) ==
    (2 * SumPresentScores(recs) + CountPresentScores(recs))
        \div (2 * CountPresentScores(recs))

-----------------------------------------------------------------------------
(* C1 *)

\* C1: whenever no progress record of a user carries a score (no records at
\* all, or only records without score), the dashboard route's quizAverage is
\* "0%" and the progress page's overall average is 0; the per-topic average
\* of getTopicProgress is 0 or null, never NaN.
C1_NoScoreAverageZero ==
    /\ \A u \in UserIds :
          (dashboardRoute(u).status = 200 /\ NoScore(getUserProgress(u)))
              => dashboardRoute(u).body.stats.quizAverage = "0%"
    /\ NoScore(pageProgress) =>
          /\ IsZero(calculateOverallStats(pageUser, pageTopics, pageProgress).averageScore)
          /\ \A t \in StoredTopics :
                \A a \in getTopicProgress(pageProgress, t).averageScore : IsZero(a)

-----------------------------------------------------------------------------
(* C2 *)

\* C2: for a topic with lessonsCount = 0 the percentage of getTopicProgress
\* is 0, and with an empty topic list topicsProgress and lessonsProgress of
\* calculateOverallStats are 0.  (The store is seeded with four topics and
\* never deletes one; the page's topic list is [], its default, until its
\* topics query has data.)
C2_ZeroDenominatorZero ==
    /\ \A t \in StoredTopics :
          t.lessonsCount = 0 => IsZero(getTopicProgress(pageProgress, t).percentage)
    /\ IsZero(calculateOverallStats(pageUser, <<>>, pageProgress).topicsProgress)
    /\ IsZero(calculateOverallStats(pageUser, <<>>, pageProgress).lessonsProgress)

-----------------------------------------------------------------------------
(* C3 *)

\* C3: for every stored user with level >= 1 and points >= 0 the level/XP
\* percentage lies in [0, 100], in the progress page and in the welcome header.
C3_LevelPercentageInRange ==
    \A u \in StoredUsers :
        (u.level >= 1 /\ u.points >= 0) =>
            /\ InPercentRange(getLevelProgress({u}).percentage)
            /\ InPercentRange(headerLevelProgress(u).percentage)

-----------------------------------------------------------------------------
(* C4 *)

\* the topics that have a topic-level completion record of the user
CompletedTopicIds(u) ==
    {t.id : t \in {t \in StoredTopics :
                      \E p \in Range(getUserProgress(u)) :
                          p.topicId = t.id /\ TopicLevelCompletion(p)}}

\* C4: stats.completedTopics is "X/Y" with X the number of distinct topics
\* that have a topic-level completion record of the user and Y the number
\* of topics.
C4_CompletedTopicsCountsTopics ==
    \A u \in UserIds :
        dashboardRoute(u).status = 200 =>
            dashboardRoute(u).body.stats.completedTopics
                = ToString(Cardinality(CompletedTopicIds(u))) \o "/"
                  \o ToString(Cardinality(StoredTopics))

-----------------------------------------------------------------------------
(* C5 *)

\* the topic status the rule gives: completed iff a topic-level completion
\* record exists, in progress iff records exist and none is one
RuleCompleted(recs, topicId) ==
    \E p \in Range(recs) : p.topicId = topicId /\ TopicLevelCompletion(p)
RuleInProgress(recs, topicId) ==
    /\ \E p \in Range(recs) : p.topicId = topicId
    /\ ~RuleCompleted(recs, topicId)

\* C5: the dashboard topic grid and the topics page show a topic as
\* completed iff it has a topic-level completion record, and as in progress
\* iff it has records and none is a topic-level completion record.
C5_TopicStatusByTopicLevelRecord ==
    /\ \A u \in UserIds :
          dashboardRoute(u).status = 200 =>
              LET data == dashboardRoute(u).body
              IN  \A t \in Range(topicsWithProgress(data)) :
                      /\ t.isCompleted <=> RuleCompleted(data.currentProgress, t.id)
                      /\ t.isInProgress <=> RuleInProgress(data.currentProgress, t.id)
    /\ \A t \in StoredTopics :
          /\ getProgressData(pageProgress, t.id).isCompleted
                <=> RuleCompleted(pageProgress, t.id)
          /\ getProgressData(pageProgress, t.id).isInProgress
                <=> RuleInProgress(pageProgress, t.id)

-----------------------------------------------------------------------------
(* C6 *)

ScoresInRange(recs) ==
    \A i \in 1..Len(recs) : \A sc \in recs[i].score : sc \in 0..100

\* C6: when at least one record carries a score (scores in 0..100), the
\* average is the rounded mean of the scores of exactly the records whose
\* score is present, a present 0 included.
C6_AverageIsRoundedMean ==
    /\ \A u \in UserIds :
          LET recs == getUserProgress(u)
          IN  (dashboardRoute(u).status = 200 /\ ScoresInRange(recs)
               /\ CountPresentScores(recs) > 0) =>
                  dashboardRoute(u).body.stats.quizAverage
                      = ToString(RoundedMean(recs)) \o "%"
    /\ (ScoresInRange(pageProgress) /\ CountPresentScores(pageProgress) > 0) =>
          calculateOverallStats(pageUser, pageTopics, pageProgress).averageScore
              = Num(RoundedMean(pageProgress))

-----------------------------------------------------------------------------
(* C7 *)

Max0(n) == IF n < 0 THEN 0 ELSE n

\* the projection of the rule: progress max(0, P - (L-1)*1000), percentage
\* that progress over 1000 times 100, capped at 100
RuleLevelProgress(lp, u) ==
    LET progress == Max0(u.points - (u.level - 1) * 1000)
    IN  /\ lp.current = progress
        /\ IF progress >= 1000 THEN IsRatio(lp.percentage, 100, 1)
           ELSE IsRatio(lp.percentage, progress * 100, 1000)

\* C7: for every stored user the displayed XP progress is
\* max(0, P - (L-1)*1000) and the percentage is clamp(progress/1000*100, 0, 100),
\* in the progress page and in the welcome header.
C7_LevelProgressFollowsRule ==
    \A u \in StoredUsers :
        (u.level >= 1 /\ u.points >= 0) =>
            /\ RuleLevelProgress(getLevelProgress({u}), u)
            /\ RuleLevelProgress(headerLevelProgress(u), u)

-----------------------------------------------------------------------------
(* C8 *)

Min(a, b) == IF a <= b THEN a ELSE b

\* C8: recentAchievements holds min(3, n) of the user's n unlocks, in
\* descending unlock-time order, and no unlock left out is later than one
\* that is included.
C8_RecentAchievementsAreLatest ==
    \A u \in UserIds :
        dashboardRoute(u).status = 200 =>
            LET recent == dashboardRoute(u).body.recentAchievements
                all == getUserAchievements(u)
                shown == {recent[i].id : i \in 1..Len(recent)}
            IN  /\ Len(recent) = Min(3, Len(all))
                /\ shown \subseteq {all[i].id : i \in 1..Len(all)}
                /\ \A i, j \in 1..Len(recent) :
                      i < j => The(recent[i].unlockedAt) >= The(recent[j].unlockedAt)
                /\ \A i \in 1..Len(all), j \in 1..Len(recent) :
                      all[i].id \notin shown
                          => The(all[i].unlockedAt) <= The(recent[j].unlockedAt)

-----------------------------------------------------------------------------
(* C9 *)

\* C9: getRecentActivity returns at most 5 entries, each a record of the
\* input with a present completion timestamp, in non-increasing timestamp
\* order; no record with a timestamp that is left out is more recent than
\* one that is included, and records without timestamp never appear.
C9_RecentActivityLatestFive ==
    LET recs == pageProgress
        out == getRecentActivity(pageTopics, recs)
        listed == {out[i].id : i \in 1..Len(out)}
    IN  /\ Len(out) <= 5
        /\ \A i \in 1..Len(out) :
              /\ out[i].completedAt # None
              /\ \E p \in Range(recs) :
                    p.id = out[i].id /\ p.completedAt = out[i].completedAt
        /\ \A i, j \in 1..Len(out) :
              i < j => The(out[i].completedAt) >= The(out[j].completedAt)
        /\ \A p \in Range(recs) :
              /\ p.completedAt = None => p.id \notin listed
              /\ (p.completedAt # None /\ p.id \notin listed) =>
                    \A i \in 1..Len(out) :
                        The(p.completedAt) <= The(out[i].completedAt)

\* C9 witness: more than five records carry a timestamp, one record carries
\* none, the timestamps differ and the map order is not the time order, and
\* five entries are listed
C9_Witness ==
    LET recs == pageProgress
    IN  /\ Len(FilterCompletedAt(recs)) > 5
        /\ \E p \in Range(recs) : p.completedAt = None
        /\ \E i, j \in 1..Len(recs) :
              /\ i < j
              /\ recs[i].completedAt # None
              /\ recs[j].completedAt # None
              /\ The(recs[i].completedAt) < The(recs[j].completedAt)
        /\ Len(getRecentActivity(pageTopics, recs)) = 5

-----------------------------------------------------------------------------
(* C10 *)

\* C10: for an id that resolves to no stored user the dashboard route answers
\* not-found without a view-model, and while the progress page has no user
\* it shows no level/XP projection and passes no user to the navigation.
C10_NoPhantomUser ==
    /\ \A u \in UserIds :
          getUser(u) = {} =>
              /\ dashboardRoute(u).status = 404
              /\ DOMAIN dashboardRoute(u).body = {"message"}
    /\ pageUser = {} =>
          /\ DOMAIN getLevelProgress(pageUser) = {}
          /\ DOMAIN navigationUser(pageUser) = {}

-----------------------------------------------------------------------------
(* The progress page's recent activity: progress records created and       *)
(* updated with completion timestamps chosen by the client                 *)

MaxCompletedAt == 3

ActivityInserts ==
    {[userId |-> "user-1", topicId |-> "quadratic", lessonId |-> "quadratic-3",
      isCompleted |-> TRUE]}
    \cup {[userId |-> "user-1", topicId |-> "quadratic", lessonId |-> "quadratic-3",
           isCompleted |-> TRUE, completedAt |-> Some(t)] : t \in 0..MaxCompletedAt}

\* the last update moves the record to a topic the store does not hold
ActivityUpdates ==
    {[completedAt |-> None], [completedAt |-> Some(MaxCompletedAt)],
     [topicId |-> "trigonometry"]}

NextActivity ==
    \/ Len(userProgress) < MaxActivityProgress
       /\ \E p \in ActivityInserts : CreateUserProgress(p)
    \/ \E updates \in ActivityUpdates : UpdateUserProgress("progress-1", updates)

SpecActivity == Init /\ [][NextActivity]_vars

-----------------------------------------------------------------------------
(* C11 *)

\* C11: a progress record whose topicId resolves to no topic of the list
\* produces no entry of the recent-activity list: every entry of
\* getRecentActivity belongs to a topic of the list.
C11_UnknownTopicSkipped ==
    LET out == getRecentActivity(pageTopics, pageProgress)
    IN  \A i \in 1..Len(out) : findTopic(pageTopics, out[i].topicId) # {}

-----------------------------------------------------------------------------
(* The record routes: progress submitted and patched, users patched, and    *)
(* single records read, by known and unknown ids                           *)

MaxStoredProgress == 5

\* bodies of POST /api/progress: a lesson completion with score 0 in no
\* time; the same without userId, without topicId and without isCompleted;
\* the quiz page's submission, which carries completedAt; and a quiz attempt
\* reported as not completed
PostBodies ==
    {[userId |-> "user-1", topicId |-> "functions", lessonId |-> "functions-1",
      isCompleted |-> TRUE, score |-> Some(0), timeSpent |-> Some(0)],
     [topicId |-> "functions", lessonId |-> "functions-1",
      isCompleted |-> TRUE, score |-> Some(0), timeSpent |-> Some(0)],
     [userId |-> "user-1", lessonId |-> "functions-1",
      isCompleted |-> TRUE, score |-> Some(0), timeSpent |-> Some(0)],
     [userId |-> "user-1", topicId |-> "functions", lessonId |-> "functions-1"],
     [userId |-> "user-1", topicId |-> "quadratic", lessonId |-> "quadratic-3",
      isCompleted |-> TRUE, score |-> Some(80), timeSpent |-> Some(300),
      completedAt |-> Some(1)],
     [userId |-> "user-1", topicId |-> "quadratic", lessonId |-> "quadratic-3",
      isCompleted |-> FALSE, score |-> Some(80), timeSpent |-> Some(300)]}

UserPatches == {[level |-> 2, points |-> 1450], [streak |-> 8]}

ProgressPatches == {[score |-> Some(0)], [isCompleted |-> FALSE, timeSpent |-> Some(60)]}

NextRecords ==
    \/ Len(userProgress) < MaxStoredProgress /\ \E body \in PostBodies : PostProgress(body)
    \/ \E id \in ProgressIds, body \in ProgressPatches : PutProgress(id, body)
    \/ \E id \in UserIds, body \in UserPatches : PutUser(id, body)
    \/ \E id \in UserIds : GetUser(id)
    \/ \E id \in TopicIds : GetTopic(id)
    \/ \E id \in LessonIds : GetLesson(id)
    \/ \E id \in QuizIds : GetQuiz(id)

SpecRecords == Init /\ [][NextRecords]_vars

\* the keys a map holds records under
Keys(m) == {m[i].k : i \in 1..Len(m)}

-----------------------------------------------------------------------------
(* C12 *)

-----------------------------------------------------------------------------
(* C13 *)

\* C13: the record a progress submission creates carries, for each of
\* lessonId, isCompleted, score, timeSpent and completedAt, exactly the
\* supplied value when one is supplied (score 0, timeSpent 0 and
\* completed = false included), and the default (absent, or false for
\* isCompleted) only when none is supplied.
C13_SuppliedValuesStored ==
    [][\A body \in PostBodies :
          (PostProgress(body) /\ response'.status = 201) =>
              LET rec == response'.body
              IN  /\ \A f \in {"lessonId", "isCompleted", "score", "timeSpent",
                               "completedAt"} \cap DOMAIN body : rec[f] = body[f]
                  /\ "lessonId" \notin DOMAIN body => rec.lessonId = NULL
                  /\ "isCompleted" \notin DOMAIN body => rec.isCompleted = FALSE
                  /\ \A f \in {"score", "timeSpent", "completedAt"} \ DOMAIN body :
                        rec[f] = None]_vars

-----------------------------------------------------------------------------
(* C14 *)

\* the entry after is the entry before with the fields of patch set to the
\* patch's values and every other field as it was
MergedEntry(before, after, patch) ==
    /\ after.k = before.k
    /\ DOMAIN after.v = DOMAIN before.v \cup DOMAIN patch
    /\ \A f \in DOMAIN patch : after.v[f] = patch[f]
    /\ \A f \in DOMAIN before.v \ DOMAIN patch : after.v[f] = before.v[f]

\* the map after is the map before, entry by entry, but for the entry under
\* key, which is merged with patch
MergedAt(before, after, key, patch) ==
    /\ Len(after) = Len(before)
    /\ \A i \in 1..Len(before) :
          IF before[i].k = key THEN MergedEntry(before[i], after[i], patch)
          ELSE after[i] = before[i]

\* C14: updateUser and updateUserProgress on a known id set every field of
\* the update to the supplied value, keep every other field of the record,
\* and leave every other record of every collection as it was; the call
\* returns the merged record.
C14_UpdateMergesOnly ==
    [][/\ \A id \in UserIds, body \in UserPatches :
             (PutUser(id, body) /\ id \in Keys(users)) =>
                 /\ MergedAt(users, users', id, body)
                 /\ response'.status = 200
                 /\ response'.body = MapGet(users', id)
                 /\ UNCHANGED <<topics, lessons, quizzes, userProgress, achievements,
                                userAchievements>>
       /\ \A id \in ProgressIds, body \in ProgressPatches :
             (PutProgress(id, body) /\ id \in Keys(userProgress)) =>
                 /\ MergedAt(userProgress, userProgress', id, body)
                 /\ response'.status = 200
                 /\ response'.body = MapGet(userProgress', id)
                 /\ UNCHANGED <<users, topics, lessons, quizzes, achievements,
                                userAchievements>>]_vars

\* C14 witness: progress-1 has just been patched with a score of 0 and keeps
\* its other fields, next to records submitted since; user-1 was patched with
\* level and points and keeps name and streak
C14_Witness ==
    /\ response.status = 200
    /\ response.body = MapGet(userProgress, "progress-1")
    /\ response.body.score = Some(0)
    /\ response.body.isCompleted
    /\ response.body.timeSpent = Some(5400)
    /\ Len(userProgress) > 3
    /\ MapGet(users, "user-1").points = 1450
    /\ MapGet(users, "user-1").level = 2
    /\ MapGet(users, "user-1").name = "Ahmad"
    /\ MapGet(users, "user-1").streak = 7

-----------------------------------------------------------------------------
(* C15 *)

\* C15: for an id the store holds no record under, getUser, getTopic,
\* getLesson and getQuiz return absent, updateUser and updateUserProgress
\* return absent and leave their map as it was, and the GET and PUT routes
\* answer 404 and leave the store as it was.
C15_UnknownIdNotFound ==
    [][/\ \A id \in UserIds \ Keys(users) :
             /\ getUser(id) = {}
             /\ \A body \in UserPatches :
                   updateUserReturn(id, body) = {} /\ updateUser(id, body) = users
       /\ \A id \in TopicIds \ Keys(topics) : getTopic(id) = {}
       /\ \A id \in LessonIds \ Keys(lessons) : getLesson(id) = {}
       /\ \A id \in QuizIds \ Keys(quizzes) : getQuiz(id) = {}
       /\ \A id \in ProgressIds \ Keys(userProgress) :
             \A body \in ProgressPatches :
                 /\ updateUserProgressReturn(id, body) = {}
                 /\ updateUserProgress(id, body) = userProgress
       /\ \A id \in UserIds \ Keys(users) :
             /\ GetUser(id) => (response'.status = 404 /\ store' = store)
             /\ \A body \in UserPatches :
                   PutUser(id, body) => (response'.status = 404 /\ store' = store)
       /\ \A id \in TopicIds \ Keys(topics) :
             GetTopic(id) => (response'.status = 404 /\ store' = store)
       /\ \A id \in LessonIds \ Keys(lessons) :
             GetLesson(id) => (response'.status = 404 /\ store' = store)
       /\ \A id \in QuizIds \ Keys(quizzes) :
             GetQuiz(id) => (response'.status = 404 /\ store' = store)
       /\ \A id \in ProgressIds \ Keys(userProgress) :
             \A body \in ProgressPatches :
                 PutProgress(id, body) => (response'.status = 404 /\ store' = store)]_vars

\* C15 witness: PUT /api/progress/progress-9 has just been answered 404,
\* after other records were submitted and patched, and no record is stored
\* under progress-9
C15_Witness ==
    /\ response = NotFound("Progress not found")
    /\ "progress-9" \notin Keys(userProgress)
    /\ Len(userProgress) > 3
    /\ MapGet(userProgress, "progress-1").score = Some(0)

-----------------------------------------------------------------------------
(* The catalogue: topics, lessons and quizzes created under ids the caller  *)
(* supplies, new and already stored, with display orders that tie           *)

MaxCatalogTopics == 6
MaxCatalogLessons == 11
MaxCatalogQuizzes == 4

\* two new topics whose order ties with a seeded topic's, and a topic under
\* the id of the seeded topic "functions" with another order
CatalogTopics ==
    {[id |-> "indices", title |-> "Indices and Surds", lessonsCount |-> 0,
      colorClass |-> "blue", order |-> 2],
     [id |-> "sets", title |-> "Sets", lessonsCount |-> 4,
      colorClass |-> "green", order |-> 1],
     [id |-> "functions", title |-> "Functions", lessonsCount |-> 9,
      colorClass |-> "blue", order |-> 3]}

\* two new lessons whose order ties with a seeded lesson's of the same
\* topic, and a lesson under the id of the seeded lesson "quadratic-1"
CatalogLessons ==
    {[id |-> "quadratic-7", topicId |-> "quadratic", title |-> "The Discriminant",
      order |-> 3],
     [id |-> "functions-0", topicId |-> "functions", title |-> "Relations",
      order |-> 1, videoDuration |-> Some(0)],
     [id |-> "quadratic-1", topicId |-> "functions", title |-> "Inverse Functions",
      order |-> 2]}

\* a new quiz, and a quiz under the id of the seeded quiz "functions-quiz-1"
CatalogQuizzes ==
    {[id |-> "indices-quiz", title |-> "Indices and Surds Quiz"],
     [id |-> "functions-quiz-1", title |-> "Functions Revision Quiz",
      topicId |-> "functions", pointsReward |-> 0]}

NextCatalog ==
    \/ Len(topics) < MaxCatalogTopics /\ \E t \in CatalogTopics : CreateTopic(t)
    \/ Len(lessons) < MaxCatalogLessons /\ \E l \in CatalogLessons : CreateLesson(l)
    \/ Len(quizzes) < MaxCatalogQuizzes /\ \E q \in CatalogQuizzes : CreateQuiz(q)

SpecCatalog == Init /\ [][NextCatalog]_vars

\* the position of the entry stored under key
MapIndex(m, key) == CHOOSE i \in 1..Len(m) : m[i].k = key

\* out holds every record of recs exactly once and nothing else
ExactlyOnce(out, recs) ==
    /\ Len(out) = Cardinality(recs)
    /\ \A rec \in recs : Cardinality({j \in 1..Len(out) : out[j] = rec}) = 1

\* out ascends by order, and records with equal order stand as their keys
\* stand in the map m
AscendingByOrder(out, m) ==
    \A i, j \in 1..Len(out) :
        i < j => /\ out[i].order <= out[j].order
                 /\ out[i].order = out[j].order
                       => MapIndex(m, out[i].id) < MapIndex(m, out[j].id)

-----------------------------------------------------------------------------
(* C16 *)

\* C16: getAllTopics returns every stored topic exactly once, ascending by
\* order, topics of equal order in the order their ids were first inserted;
\* getLessonsByTopic returns exactly the stored lessons of the topic, each
\* once, ascending by order.
C16_TopicsAndLessonsInOrder ==
    /\ ExactlyOnce(getAllTopics, StoredTopics)
    /\ AscendingByOrder(getAllTopics, topics)
    /\ \A t \in Keys(topics) \cup {"trigonometry"} :
          LET out == getLessonsByTopic(t)
          IN  /\ ExactlyOnce(out, {l \in Range(MapValues(lessons)) : l.topicId = t})
              /\ AscendingByOrder(out, lessons)

\* C16 witness: topics and lessons created after construction tie with
\* seeded ones, a topic was created again with a later order, and the map
\* order of the topics is not their display order
C16_Witness ==
    /\ {"indices", "sets"} \subseteq Keys(topics)
    /\ MapGet(topics, "functions").order = 3
    /\ {"quadratic-7", "functions-0"} \subseteq Keys(lessons)
    /\ MapGet(lessons, "quadratic-1").topicId = "functions"
    /\ getAllTopics # MapValues(topics)
    /\ Len(getLessonsByTopic("functions")) = 5

-----------------------------------------------------------------------------
(* C17 *)

\* every entry stored before is stored after, under its key, unchanged
KeepsRecords(before, after) ==
    \A i \in 1..Len(before) : \E j \in 1..Len(after) : after[j] = before[i]

-----------------------------------------------------------------------------
(* C18 *)

\* C18: no step removes a progress record: the identifiers the progress
\* records are stored under only grow; a submission that is accepted adds
\* exactly one record, under an identifier no record is stored under or
\* carries, and leaves the records stored before as they were.
C18_ProgressIdsOnlyGrow ==
    [][/\ Keys(userProgress) \subseteq Keys(userProgress')
       /\ \A body \in PostBodies :
             (PostProgress(body) /\ response'.status = 201) =>
                 /\ Len(userProgress') = Len(userProgress) + 1
                 /\ SubSeq(userProgress', 1, Len(userProgress)) = userProgress
                 /\ LET created == userProgress'[Len(userProgress')]
                    IN  /\ created.k \notin Keys(userProgress)
                        /\ created.v.id = created.k
                        /\ \A p \in Range(MapValues(userProgress)) :
                              p.id # created.v.id]_vars

\* C18 witness: a second submission has just been accepted and stored
\* behind the first and the three seeded records
C18_Witness ==
    /\ response.status = 201
    /\ Len(userProgress) >= 5
    /\ userProgress[Len(userProgress)].v = response.body
    /\ {"progress-1", "progress-2", "progress-3"} \subseteq Keys(userProgress)

-----------------------------------------------------------------------------
(* Achievement unlocks: created for a pair that is already unlocked, for    *)
(* another user, and for an achievement the store does not hold             *)

MaxUnlocks == 6

AchievementUnlocks ==
    {[userId |-> "user-1", achievementId |-> "week-warrior"],
     [userId |-> "user-uuid-2", achievementId |-> "quiz-master"],
     [userId |-> "user-1", achievementId |-> "night-owl"]}

NextAchievements ==
    \/ Tick
    \/ Len(userAchievements) < MaxUnlocks
       /\ \E ua \in AchievementUnlocks : CreateUserAchievement(ua)
    \/ \E id \in UserIds : GetUserAchievements(id)

SpecAchievements == Init /\ [][NextAchievements]_vars

\* the stored unlocks of the pair (user, achievement)
UnlocksOf(userId, achievementId) ==
    {ua \in Range(MapValues(userAchievements)) :
        ua.userId = userId /\ ua.achievementId = achievementId}

-----------------------------------------------------------------------------
(* C19 *)

\* C19: createUserAchievement succeeds whether or not the pair (user,
\* achievement) is already unlocked: every call adds one record under a
\* fresh identifier and keeps the records stored before, so the pair has
\* one more record than it had.
C19_UnlocksNotUnique ==
    [][\A ua \in AchievementUnlocks :
          CreateUserAchievement(ua) =>
              /\ Len(userAchievements') = Len(userAchievements) + 1
              /\ SubSeq(userAchievements', 1, Len(userAchievements)) = userAchievements
              /\ LET created == userAchievements'[Len(userAchievements')]
                 IN  /\ created.k \notin Keys(userAchievements)
                     /\ created.v.id = created.k
                     /\ created.v.userId = ua.userId
                     /\ created.v.achievementId = ua.achievementId
              /\ Cardinality(UnlocksOf(ua.userId, ua.achievementId)')
                    = Cardinality(UnlocksOf(ua.userId, ua.achievementId)) + 1]_vars

\* C19 witness: two calls for (user-1, week-warrior) left two distinct
\* records next to the seeded one, and the user's list counts all three
C19_Witness ==
    /\ Cardinality(UnlocksOf("user-1", "week-warrior")) >= 3
    /\ Cardinality({i \in 1..Len(getUserAchievements("user-1")) :
                       getUserAchievements("user-1")[i].achievementId = "week-warrior"}) >= 3

-----------------------------------------------------------------------------
(* C20 *)

\* C20: every entry of getUserAchievements(u) belongs to u and carries the
\* stored achievement whose id is the entry's achievementId, and every
\* stored unlock of u is returned exactly once.
C20_UnlocksJoinedWithAchievement ==
    \A u \in UserIds :
        LET out == getUserAchievements(u)
            mine == {ua \in Range(MapValues(userAchievements)) : ua.userId = u}
        IN  /\ \A i \in 1..Len(out) :
                  /\ out[i].userId = u
                  /\ out[i].achievement # {}
                  /\ out[i].achievementId \in Keys(achievements)
                  /\ The(out[i].achievement) = MapGet(achievements, out[i].achievementId)
                  /\ The(out[i].achievement).id = out[i].achievementId
            /\ Len(out) = Cardinality(mine)
            /\ \A ua \in mine :
                  Cardinality({i \in 1..Len(out) : out[i].id = ua.id}) = 1

-----------------------------------------------------------------------------
(* The dashboard and the progress page over a store that is written to      *)
(* between requests: records of a topic declared with a single lesson, and  *)
(* a topic-level completion                                                 *)

MaxDashboardProgress == 6

DashboardTopics ==
    {[id |-> "sets", title |-> "Sets", lessonsCount |-> 1, colorClass |-> "green",
      order |-> 5]}

DashboardProgress ==
    {[userId |-> "user-1", topicId |-> "sets", lessonId |-> "sets-1",
      isCompleted |-> TRUE, score |-> Some(70)],
     [userId |-> "user-1", topicId |-> "sets", lessonId |-> "sets-1",
      isCompleted |-> FALSE],
     [userId |-> "user-1", topicId |-> "logarithmic", isCompleted |-> TRUE]}

NextDashboard ==
    \/ \E id \in UserIds : GetDashboard(id)
    \/ Len(topics) < MaxTopics /\ \E t \in DashboardTopics : CreateTopic(t)
    \/ Len(userProgress) < MaxDashboardProgress
       /\ \E p \in DashboardProgress : CreateUserProgress(p)
    \/ \E id \in UserIds, updates \in UserUpdates : UpdateUser(id, updates)

SpecDashboard == Init /\ [][NextDashboard]_vars

-----------------------------------------------------------------------------
(* C21 *)

\* C21: a dashboard request leaves every collection of the store as it was,
\* and as long as nothing is written a request for the same user is answered
\* with the view-model the last one was answered with.
C21_DashboardPureRead ==
    [][/\ \A id \in UserIds : GetDashboard(id) => store' = store
       /\ \A id \in UserIds :
             (response.status = 200 /\ response.body.user.id = id)
                 => response = dashboardRoute(id)]_vars

\* C21 witness: the dashboard of user-1 has just been served from a store
\* written to since construction (records added, the user's level and
\* points updated), and the stored level is not the one the points give
C21_Witness ==
    /\ response.status = 200
    /\ response = dashboardRoute("user-1")
    /\ Len(response.body.currentProgress) > 3
    /\ response.body.user.points = 1450
    /\ MapGet(users, "user-1").level = 2


\* ---------------------------------------------------------------------
\* Request bodies outside the value ranges.  PUT /api/users/:id and
\* PUT /api/progress/:id hand req.body to the storage as it arrived;
\* POST /api/progress parses it with insertUserProgressSchema, whose score
\* column is a plain integer.
\* ---------------------------------------------------------------------
UserPayloads == {[points |-> -50], [level |-> 0], [id |-> "user-9"]}

ProgressPayloads == {[score |-> Some(150)], [id |-> "progress-9"]}

PostPayloads ==
    {[userId |-> "user-1", topicId |-> "quadratic", lessonId |-> "quadratic-3",
      isCompleted |-> TRUE, score |-> Some(150)]}

NextPayloads ==
    \/ Len(users) < MaxUsers /\ \E insertUser \in InsertUsers : CreateUser(insertUser)
    \/ \E id \in UserIds, body \in UserPayloads : PutUser(id, body)
    \/ Len(userProgress) < MaxProgress /\ \E body \in PostPayloads : PostProgress(body)
    \/ \E id \in ProgressIds, body \in ProgressPayloads : PutProgress(id, body)

SpecPayloads == Init /\ [][NextPayloads]_vars

\* C22: every stored user has a level of at least 1 and points, streak and
\* study minutes of at least 0, and every stored progress score is absent or
\* within 0..100.
C22_StoredValuesInRange ==
    /\ \A i \in 1..Len(users) :
          /\ users[i].v.level >= 1
          /\ users[i].v.points >= 0
          /\ users[i].v.streak >= 0
          /\ users[i].v.studyTimeMinutes >= 0
    /\ \A i \in 1..Len(userProgress) :
          \A s \in userProgress[i].v.score : s \in 0..100


\* C30: in every collection the record held under map key k has id = k.
C30_StoredUnderOwnId ==
    \A m \in {users, topics, lessons, quizzes, userProgress, userAchievements} :
        \A i \in 1..Len(m) : m[i].v.id = m[i].k


\* the user's stored progress records for the topic with completed = true
CompletedRecords(userId, topicId) ==
    {i \in 1..Len(userProgress) :
        /\ userProgress[i].v.userId = userId
        /\ userProgress[i].v.topicId = topicId
        /\ userProgress[i].v.isCompleted}

\* C23: for every topic with lessonsCount > 0 the progress page's completed
\* count is the number of the user's completed records for the topic and its
\* percentage is completed / lessonsCount * 100, not clamped; 2 completed
\* records of 6 lessons round to 33.
C23_TopicProgressUnclamped ==
    LET progress == pageProgress
        topicList == pageTopics
    IN  \A t \in 1..Len(topicList) :
            topicList[t].lessonsCount > 0 =>
                LET tp == getTopicProgress(progress, topicList[t])
                    n == Cardinality(CompletedRecords(pageUserId, topicList[t].id))
                IN  /\ tp.completed = n
                    /\ IsRatio(tp.percentage, n * 100, topicList[t].lessonsCount)
                    /\ (topicList[t].lessonsCount = 6 /\ n = 2)
                           => MathRound(tp.percentage) = Num(33)

\* a topic with more completed records than lessons is shown above 100 %,
\* next to a topic with 2 of 6 lessons completed
C23_Witness ==
    LET progress == pageProgress
        topicList == pageTopics
    IN  /\ \E t \in 1..Len(topicList) :
              /\ topicList[t].lessonsCount > 0
              /\ getTopicProgress(progress, topicList[t]).completed > topicList[t].lessonsCount
              /\ getTopicProgress(progress, topicList[t]).percentage.n
                     > 100 * getTopicProgress(progress, topicList[t]).percentage.d
        /\ \E t \in 1..Len(topicList) :
              /\ topicList[t].lessonsCount = 6
              /\ getTopicProgress(progress, topicList[t]).completed = 2


\* C27: the number of completed topics in the dashboard route's stats, the
\* progress page's completedTopics and the number of topics the dashboard
\* grid marks completed are the same number.
C27_CompletedTopicsAgree ==
    LET served == dashboardRoute(pageUserId)
    IN  served.status = 200 =>
            LET overall == calculateOverallStats(getUser(pageUserId), pageTopics, pageProgress)
                grid == topicsWithProgress(served.body)
                marked == Cardinality({t \in 1..Len(grid) : grid[t].isCompleted})
            IN  /\ overall.completedTopics = marked
                /\ served.body.stats.completedTopics
                       = ToString(marked) \o "/" \o ToString(Len(served.body.topics))


-----------------------------------------------------------------------------
(* Client: quiz page (quiz.tsx).  A user event runs its handler to the end; *)
(* the state setters it calls schedule one render, which React commits,     *)
(* effects included, before the next event and before the continuation of   *)
(* an async function that started waiting after the setter was called.      *)

quizUserId == "user-1"

\* the option buttons the user presses (of the four of every seeded question)
AnswerIndexes == {0, 1}

questions == The(quizData).questions
\* questions[index] of the 0-based array
questionAt(index) == questions[index + 1]
isLastQuestion == currentQuestionIndex = Len(questions) - 1

\* the view with the question, its options and the Previous / Next buttons:
\* the component returns earlier while there is no quiz and when isSubmitted
questionView == quizData # None /\ ~isSubmitted

\* selectedAnswers after handleAnswerSelect(answerIndex)
handleAnswerSelect(answerIndex) ==
    IF isSubmitted THEN selectedAnswers
    ELSE Spread(selectedAnswers, [i \in {currentQuestionIndex} |-> answerIndex])

\* handleSubmitQuiz: the forEach that counts the correct answers
correctAnswers ==
    Cardinality({index \in 0..(Len(questions) - 1) :
                    /\ index \in DOMAIN selectedAnswers
                    /\ selectedAnswers[index] = questionAt(index).correctAnswer})

\* Math.round((score / questions.length) * 100)
scorePercentage(correct) == MathRound(Times(Div(correct, Len(questions)), 100))

\* JSON.stringify of a number: NaN and Infinity become null
JsonNumber(x) == IF x.k = "num" /\ x.d = 1 THEN Some(x.n) ELSE None

\* the body the mutationFn posts; closureScore is the score of the render
\* that made the function.  timeRemaining is never set: it is null.
submitQuizBody(closureScore) ==
    LET quiz == The(quizData)
    IN  [userId |-> quizUserId,
         topicId |-> quiz.topicId,
         lessonId |-> quiz.lessonId,
         isCompleted |-> TRUE,
         score |-> JsonNumber(scorePercentage(closureScore)),
         timeSpent |-> IF TruthyNum(quiz.timeLimit) THEN Some(The(quiz.timeLimit) - 0)
                       ELSE Some(300),
         completedAt |-> Some(now)]

\* the page is opened at /quiz/:id (Retake Quiz reloads it): every state
\* starts over and the quiz query gets the answer of GET /api/quizzes/:id
OpenQuiz(id) ==
    /\ ~renderPending /\ mutationStatus # "pending"
    /\ response' = quizRoute(id)
    /\ quizData' = IF response'.status = 200 THEN {response'.body} ELSE None
    /\ currentQuestionIndex' = 0
    /\ selectedAnswers' = <<>>
    /\ isSubmitted' = FALSE
    /\ score' = 0
    /\ renderPending' = FALSE
    /\ mutationStatus' = "idle"
    /\ mutationFnScore' = 0
    /\ posts' = <<>>
    /\ UNCHANGED <<store, now, pageUser>>

\* an option button of the question view
SelectAnswer(answerIndex) ==
    /\ ~renderPending /\ questionView
    /\ selectedAnswers' = handleAnswerSelect(answerIndex)
    /\ renderPending' = TRUE
    /\ response' = NoResponse
    /\ UNCHANGED <<store, now, pageUser, quizData, currentQuestionIndex, isSubmitted, score,
                   mutationStatus, mutationFnScore, posts>>

\* the Previous button, disabled on the first question
PreviousQuestion ==
    /\ ~renderPending /\ questionView
    /\ currentQuestionIndex # 0
    /\ currentQuestionIndex' = IF currentQuestionIndex > 0 THEN currentQuestionIndex - 1
                               ELSE currentQuestionIndex
    /\ renderPending' = TRUE
    /\ response' = NoResponse
    /\ UNCHANGED <<store, now, pageUser, quizData, selectedAnswers, isSubmitted, score,
                   mutationStatus, mutationFnScore, posts>>

\* a submission that leaves the question view open
handleSubmitQuizStayingOpen ==
    /\ score' = correctAnswers
    /\ isSubmitted' = isSubmitted
    /\ mutationStatus' = "pending"
    /\ UNCHANGED <<currentQuestionIndex, mutationFnScore>>

\* handleSubmitQuiz: setScore, setIsSubmitted, submitQuizMutation.mutate.
\* mutate starts the mutation with the options of the last committed render
\* and waits before it calls the mutationFn.
handleSubmitQuiz ==
    /\ score' = correctAnswers
    /\ isSubmitted' = TRUE
    /\ mutationStatus' = "pending"
    /\ UNCHANGED <<currentQuestionIndex, mutationFnScore>>

\* a Next button enabled although the question has no answer
HandleNextUnanswered ==
    /\ ~renderPending /\ questionView
    /\ IF isLastQuestion THEN handleSubmitQuiz
       ELSE /\ currentQuestionIndex' = currentQuestionIndex + 1
            /\ UNCHANGED <<isSubmitted, score, mutationStatus, mutationFnScore>>
    /\ renderPending' = TRUE
    /\ response' = NoResponse
    /\ UNCHANGED <<store, now, pageUser, quizData, selectedAnswers, posts>>

\* the Next / Submit Quiz button, disabled while the current question has no
\* selected answer: handleNext
HandleNext ==
    /\ ~renderPending /\ questionView
    /\ currentQuestionIndex \in DOMAIN selectedAnswers
    /\ IF isLastQuestion THEN handleSubmitQuiz
       ELSE /\ currentQuestionIndex' = currentQuestionIndex + 1
            /\ UNCHANGED <<isSubmitted, score, mutationStatus, mutationFnScore>>
    /\ renderPending' = TRUE
    /\ response' = NoResponse
    /\ UNCHANGED <<store, now, pageUser, quizData, selectedAnswers, posts>>

\* the scheduled render is committed; its effect hands the options of this
\* render, with a mutationFn that closes over this render's score, to the
\* mutation observer and to its pending mutation
Render ==
    /\ renderPending
    /\ renderPending' = FALSE
    /\ mutationFnScore' = score
    /\ response' = NoResponse
    /\ UNCHANGED <<store, now, pageUser, quizData, currentQuestionIndex, selectedAnswers,
                   isSubmitted, score, mutationStatus, posts>>

\* a mutation that calls the mutationFn it was started with, before the
\* render is committed
RunMutationFnBeforeRender ==
    /\ mutationStatus = "pending"
    /\ LET body == submitQuizBody(mutationFnScore)
       IN  /\ posts' = Append(posts, body)
           /\ response' = postProgressRoute(body)
           /\ userProgress' = IF insertUserProgressSchema(body)
                              THEN createUserProgress(progressData(body)) ELSE userProgress
    /\ mutationStatus' = "settled"
    /\ UNCHANGED <<users, topics, lessons, quizzes, achievements, userAchievements, now,
                   pageUser, quizData, currentQuestionIndex, selectedAnswers, isSubmitted,
                   score, renderPending, mutationFnScore>>

\* the pending mutation calls its mutationFn, which posts the body to
\* /api/progress; the server answers
RunMutationFn ==
    /\ mutationStatus = "pending" /\ ~renderPending
    /\ LET body == submitQuizBody(mutationFnScore)
       IN  /\ posts' = Append(posts, body)
           /\ response' = postProgressRoute(body)
           /\ userProgress' = IF insertUserProgressSchema(body)
                              THEN createUserProgress(progressData(body)) ELSE userProgress
    /\ mutationStatus' = "settled"
    /\ UNCHANGED <<users, topics, lessons, quizzes, achievements, userAchievements, now,
                   pageUser, quizData, currentQuestionIndex, selectedAnswers, isSubmitted,
                   score, renderPending, mutationFnScore>>

NextQuiz ==
    \/ \E id \in QuizIds : OpenQuiz(id)
    \/ \E answerIndex \in AnswerIndexes : SelectAnswer(answerIndex)
    \/ PreviousQuestion
    \/ HandleNext
    \/ Render
    \/ RunMutationFn
    \/ Tick

SpecQuiz == Init /\ [][NextQuiz]_vars


\* the questions (1-based) whose selected answer is the correct one
CorrectlyAnswered ==
    {q \in 1..Len(questions) :
        /\ (q - 1) \in DOMAIN selectedAnswers
        /\ selectedAnswers[q - 1] = questions[q].correctAnswer}

C28_AnsweredUpToIndex ==
    (quizData # None /\ Len(questions) >= 1) =>
        /\ currentQuestionIndex \in 0..(Len(questions) - 1)
        /\ \A j \in 0..(currentQuestionIndex - 1) : j \in DOMAIN selectedAnswers
        /\ isSubmitted => \A j \in 0..(Len(questions) - 1) : j \in DOMAIN selectedAnswers

\* an attempt has been submitted from the last question
C28_Witness ==
    /\ quizData # None /\ isSubmitted
    /\ currentQuestionIndex = Len(questions) - 1
    /\ DOMAIN selectedAnswers = 0..(Len(questions) - 1)

\* C29: once an attempt is submitted, isSubmitted stays true and
\* selectedAnswers and score stay as they are until the page is opened
\* again, and an attempt posts to /api/progress at most once.
C29_SubmittedIsFrozen ==
    [][/\ (isSubmitted /\ ~(\E id \in QuizIds : OpenQuiz(id)))
             => (isSubmitted' /\ selectedAnswers' = selectedAnswers /\ score' = score)
       /\ Len(posts') <= 1]_vars

\* a submitted attempt whose one submission has been answered
C29_Witness ==
    /\ isSubmitted
    /\ mutationStatus = "settled"
    /\ Len(posts) = 1
    /\ response.status = 400

====
